---------------------------- MODULE Spec2Model ----------------------------
(***************************************************************************)
(* A model of the RESP key-value server of app/server.py and app/resp.py.  *)
(*                                                                         *)
(* Every accepted connection is served by its own thread running           *)
(* Server.handle_connection; all threads share Server.store, a plain dict, *)
(* and no lock is taken anywhere.  A step of the model is therefore one    *)
(* access to the shared dict or to a shared list/stream object, together   *)
(* with the thread-local computation around it; the threads interleave     *)
(* between steps.  Lists and streams are mutable objects: the dict holds   *)
(* references to them, and so do the locals `li` and `stream`.             *)
(***************************************************************************)
EXTENDS Integers, Sequences, FiniteSets, Bags, TLC

(***************************************************************************)
(* Bounds of the model.                                                    *)
(***************************************************************************)
NConn == 3
MaxCmds == 1
MaxTime == 3
StreamClients == 2
TypeClients == 2
PipeClients == 1
StopClients == 2
PipeCmds == 3
RangeClients == 1
MaxList == 3
MaxArgs == 2
MaxPayload == 2

(***************************************************************************)
(* Program constants.                                                      *)
(***************************************************************************)
SleepMs == 50

Conns == 1..NConn
Keys == {"k"}
Vals == {"a", "b"}
ObjIds == 1..(Cardinality(Keys) + NConn)
NoneV == "<None>"
NoDeadline == 0 - 1000000
NoSet == [k \in Keys |-> [by |-> 0, val |-> NoneV, px |-> FALSE, dl |-> NoDeadline, alone |-> TRUE]]

\* no frame: the connections receive their commands whole
NoWire == [at |-> "none", sent |-> <<>>, more |-> <<>>, bytes |-> <<>>,
           result |-> [status |-> "", name |-> <<>>, args |-> <<>>, rest |-> <<>>]]

VARIABLES
    store,      \* Server.store: key -> value (a string, or a reference to a list or stream)
    lheap,      \* the list objects:   object id -> sequence of strings
    sheap,      \* the Stream objects: object id -> Stream.values
    conn,       \* per connection thread: position in handle_connection/handle_command and locals
    arrival,    \* history: the connections inside BLPOP, in the order they entered it
    pushed,     \* history: number of elements appended or inserted into lists so far
    popped,     \* history: number of elements popped from lists so far
    now,        \* the clock, in milliseconds
    timers,     \* the started threading.Timer objects that have not fired: a bag of [key, deadline]
    timerErr,   \* some Timer thread ended with an exception
    stop_event, \* Server.stop_event: the flag is set
    lastSet,    \* history: per key, the SET that wrote it last: its value, the deadline of its PX,
                \* and whether no other SET had overlapped it when it wrote
    wire        \* the bytes of one frame: the arguments the client encoded, the bytes in the
                \* reader, and what Command.parse made of them

vars == <<store, lheap, sheap, conn, arrival, pushed, popped, now, timers, timerErr, stop_event,
          lastSet, wire>>

-----------------------------------------------------------------------------
(***************************************************************************)
(* Values of the dict and replies.                                         *)
(***************************************************************************)
Absent == [tag |-> "none", val |-> "", obj |-> 0]
StrV(s) == [tag |-> "str", val |-> s, obj |-> 0]
ListV(id) == [tag |-> "list", val |-> "", obj |-> id]
StreamV(id) == [tag |-> "stream", val |-> "", obj |-> id]

NoReply == [cmd |-> "", t |-> "none", s |-> "", n |-> 0, a |-> <<>>]
SimpleString(c, s) == [cmd |-> c, t |-> "simple", s |-> s, n |-> 0, a |-> <<>>]
SimpleError(c, s) == [cmd |-> c, t |-> "error", s |-> s, n |-> 0, a |-> <<>>]
Integer(c, n) == [cmd |-> c, t |-> "int", s |-> "", n |-> n, a |-> <<>>]
BulkString(c, s) ==
    IF s = NoneV THEN [cmd |-> c, t |-> "nullbulk", s |-> "", n |-> 0, a |-> <<>>]
    ELSE [cmd |-> c, t |-> "bulk", s |-> s, n |-> 0, a |-> <<>>]
Array(c, xs) == [cmd |-> c, t |-> "array", s |-> "", n |-> 0, a |-> xs]
RESP_OK(c) == SimpleString(c, "OK")
EMPTY_ARRAY(c) == Array(c, <<>>)
NULL_ARRAY(c) == [cmd |-> c, t |-> "nullarray", s |-> "", n |-> 0, a |-> <<>>]

Min(x, y) == IF x <= y THEN x ELSE y
Max(x, y) == IF x >= y THEN x ELSE y

(***************************************************************************)
(* str.upper(), int() and float() on the argument texts the model sends.   *)
(***************************************************************************)
Upper(s) ==
    CASE s = "px" -> "PX"
      [] s = "Px" -> "PX"
      [] s = "streams" -> "STREAMS"
      [] OTHER -> s

IntTexts == {"-2", "-1", "0", "1", "2", "3"}
IsInt(s) == s \in IntTexts
IntOf(s) ==
    CASE s = "-2" -> 0 - 2
      [] s = "-1" -> 0 - 1
      [] s = "0" -> 0
      [] s = "1" -> 1
      [] s = "2" -> 2
      [] s = "3" -> 3
      [] OTHER -> 0

\* float(text), in milliseconds
FloatTexts == {"-1", "0", "0.05", "0.07", "0.1"}
IsFloat(s) == s \in FloatTexts
FloatMs(s) ==
    CASE s = "-1" -> 0 - 1000
      [] s = "0" -> 0
      [] s = "0.05" -> 50
      [] s = "0.07" -> 70
      [] s = "0.1" -> 100
      [] OTHER -> 0

\* len(s) of a string value
StrLen(s) ==
    CASE s = "" -> 0
      [] s \in {"a", "b", "v", "w"} -> 1
      [] OTHER -> 2

-----------------------------------------------------------------------------
(***************************************************************************)
(* The thread of one connection.  pc "idle" is the blocking read inside    *)
(* Command.parse; "crashed" is a thread ended by an exception that         *)
(* handle_connection does not catch.                                       *)
(***************************************************************************)
IdleConn(left, rep, d) ==
    [pc |-> "idle", name |-> "", key |-> "", args |-> <<>>, i |-> 0, li |-> 0, st |-> 0,
     start |-> 0, stop |-> 0, out |-> <<>>, timeout |-> 0, cur |-> 0,
     reply |-> rep, err |-> "", dirty |-> d, solo |-> TRUE, left |-> left,
     sock |-> "open", peer |-> "open", inq |-> <<>>, sent |-> 0, no |-> 0, nrep |-> 0]

\* a command: the result of Command.parse
Cmd(name, args) == [name |-> name, args |-> args]

\* objects referenced from the dict or from a local, after the step
LiveL == {store'[k].obj : k \in {x \in Keys : store'[x].tag = "list"}}
            \cup {conn'[c].li : c \in Conns}
LiveS == {store'[k].obj : k \in {x \in Keys : store'[x].tag = "stream"}}
            \cup {conn'[c].st : c \in Conns}

\* unreferenced objects are garbage
Heaps(lh, sh) ==
    /\ lheap' = [o \in ObjIds |-> IF o \in LiveL THEN lh[o] ELSE <<>>]
    /\ sheap' = [o \in ObjIds |-> IF o \in LiveS THEN sh[o] ELSE <<>>]

UsedL == {store[k].obj : k \in {x \in Keys : store[x].tag = "list"}}
            \cup {conn[c].li : c \in Conns}
UsedS == {store[k].obj : k \in {x \in Keys : store[x].tag = "stream"}}
            \cup {conn[c].st : c \in Conns}
NewL == CHOOSE o \in ObjIds \ UsedL : \A p \in ObjIds \ UsedL : o <= p
NewS == CHOOSE o \in ObjIds \ UsedS : \A p \in ObjIds \ UsedS : o <= p

RemoveConn(seq, c) == SelectSeq(seq, LAMBDA x : x # c)

\* the socket of the connection and the history of its traffic stay with the thread:
\* sock is the server's socket object, peer the client's end, inq the commands that have
\* arrived and were not read, sent the number of commands the client has sent, no the
\* number of the command last parsed, nrep the number of replies written
KeepSock(c, r, n) ==
    [r EXCEPT !.sock = conn[c].sock, !.peer = conn[c].peer, !.inq = conn[c].inq,
              !.sent = conn[c].sent, !.no = conn[c].no, !.nrep = n]

\* the thread ended by exception e
Crashed(c, e) ==
    [KeepSock(c, IdleConn(conn[c].left, NoReply, conn[c].dirty), conn[c].nrep) EXCEPT
        !.pc = "crashed", !.err = e, !.name = conn[c].name, !.key = conn[c].key,
        !.cur = conn[c].cur]

\* handle_command returns rep; handle_connection encodes it, `sock.sendall(resp)`, and
\* reads the next command.  With the peer gone the write may still succeed or raise.
Return(c, rep, d) ==
    /\ \/ conn' = [conn EXCEPT ![c] = KeepSock(c, IdleConn(conn[c].left, rep, d),
                                                conn[c].nrep + 1)]
       \/ /\ conn[c].peer = "closed"
          /\ conn' = [conn EXCEPT ![c] = Crashed(c, "BrokenPipeError")]
    /\ arrival' = RemoveConn(arrival, c)

\* an exception other than ValueError and ConnectionResetError leaves handle_connection
\* and ends the thread (name, key and cur_time are kept as the record of what it was doing)
Raise(c, e) ==
    /\ conn' = [conn EXCEPT ![c] = Crashed(c, e)]
    /\ arrival' = RemoveConn(arrival, c)

Goto(c, pc) ==
    /\ conn' = [conn EXCEPT ![c].pc = pc]
    /\ UNCHANGED arrival

At(c, pc) == conn[c].pc = pc

\* the step changes nothing but the thread's own state
Local == UNCHANGED <<store, pushed, popped, now, stop_event, wire, timers, timerErr, lastSet>> /\ Heaps(lheap, sheap)

-----------------------------------------------------------------------------
(***************************************************************************)
(* handle_connection: Command.parse returns cmd, handle_command starts.    *)
(* The checks of the arguments alone are local and part of this step.      *)
(***************************************************************************)
\* solo (history): no SET of another connection has overlapped this SET so far
Enter(c, cmd, pc, upd) ==
    /\ conn' = [d \in Conns |->
                  IF d = c
                  THEN [k \in DOMAIN conn[c] |->
                          IF k \in DOMAIN upd THEN upd[k]
                          ELSE IF k = "pc" THEN pc
                          ELSE IF k = "name" THEN cmd.name
                          ELSE IF k = "args" THEN cmd.args
                          ELSE IF k = "key" THEN cmd.args[1]
                          ELSE IF k = "left" THEN conn[c].left - 1
                          ELSE IF k \in {"sock", "peer", "nrep"} THEN conn[c][k]
                          ELSE IF k = "no" THEN cmd.no
                          ELSE IF k = "sent" THEN Max(conn[c].sent, cmd.no)
                          ELSE IF k = "solo"
                            THEN cmd.name # "SET" \/ \A e \in Conns \ {c} : conn[e].name # "SET"
                          ELSE IdleConn(0, NoReply, FALSE)[k]]
                  ELSE IF cmd.name = "SET" /\ conn[d].name = "SET"
                  THEN [conn[d] EXCEPT !.solo = FALSE]
                  ELSE conn[d]]
    /\ arrival' = IF cmd.name = "BLPOP" THEN Append(arrival, c) ELSE arrival

\* a reply that needs no access to the store: the command is parsed and answered
Reject(c, cmd, msg) ==
    LET r == [KeepSock(c, IdleConn(conn[c].left - 1, SimpleError(cmd.name, msg), FALSE),
                       conn[c].nrep + 1)
                EXCEPT !.inq = <<>>, !.no = cmd.no, !.sent = Max(conn[c].sent, cmd.no)]
    IN /\ \/ conn' = [conn EXCEPT ![c] = r]
          \/ /\ conn[c].peer = "closed"
             /\ conn' = [conn EXCEPT ![c] = [r EXCEPT !.pc = "crashed", !.nrep = conn[c].nrep,
                                                      !.reply = NoReply,
                                                      !.err = "BrokenPipeError"]]
       /\ UNCHANGED arrival

NoUpd == [x \in {} |-> 0]

HandleCommand(c, cmd) ==
    LET n == Len(cmd.args)
        a == cmd.args
    IN CASE cmd.name = "RPUSH" ->
              IF n < 2 THEN Reject(c, cmd, "RPUSH cmd: expected key and value")
              ELSE Enter(c, cmd, "rpush_in", [i |-> 2])
         [] cmd.name = "LPUSH" ->
              IF n < 2 THEN Reject(c, cmd, "LPUSH cmd: expected key and value")
              ELSE Enter(c, cmd, "lpush_in", [i |-> 2])
         [] cmd.name = "LLEN" ->
              IF n # 1 THEN Reject(c, cmd, "LLEN cmd: expected key")
              ELSE Enter(c, cmd, "llen", NoUpd)
         [] cmd.name = "LRANGE" ->
              IF n # 3 THEN Reject(c, cmd, "LRANGE cmd: expected key, start, end")
              ELSE IF ~(IsInt(a[2]) /\ IsInt(a[3]))
                   THEN Reject(c, cmd, "LRANGE cmd: expected integer for start, end")
              ELSE Enter(c, cmd, "lrange_get", [start |-> IntOf(a[2]), stop |-> IntOf(a[3])])
         [] cmd.name = "LPOP" ->
              IF n < 1 THEN Reject(c, cmd, "LPOP cmd: expected key")
              ELSE Enter(c, cmd, "lpop_get", NoUpd)
         [] cmd.name = "BLPOP" ->
              IF n # 2 THEN Reject(c, cmd, "BLPOP cmd: expected key and timeout")
              ELSE IF ~IsFloat(a[2]) THEN Reject(c, cmd, "BLPOP cmd: expected number for timeout")
              ELSE Enter(c, cmd, "blpop_get", [timeout |-> FloatMs(a[2])])
         [] cmd.name = "SET" ->
              IF n < 2 THEN Reject(c, cmd, "SET cmd: expected key and value")
              ELSE Enter(c, cmd, "set_store", NoUpd)
         [] cmd.name = "GET" ->
              IF n # 1 THEN Reject(c, cmd, "GET cmd: expected key")
              ELSE Enter(c, cmd, "get", NoUpd)
         [] cmd.name = "XADD" ->
              IF n <= 2 THEN Reject(c, cmd, "XADD cmd: expected key, id")
              ELSE Enter(c, cmd, "xadd_in", NoUpd)
         [] cmd.name = "XRANGE" ->
              IF n # 3 THEN Reject(c, cmd, "XRANGE cmd: expected key, start, end")
              ELSE Enter(c, cmd, "xrange_in", NoUpd)
         [] cmd.name = "TYPE" ->
              IF n # 1 THEN Reject(c, cmd, "TYPE cmd: expected key")
              ELSE Enter(c, cmd, "type_in", NoUpd)
         [] OTHER -> Reject(c, cmd, "unknown command " \o cmd.name)

\* the client sends cmd and Command.parse returns it
Begin(c, cmd) ==
    /\ At(c, "idle")
    /\ conn[c].left > 0
    /\ conn[c].peer = "open"
    /\ conn[c].inq = <<>>
    /\ HandleCommand(c, [name |-> cmd.name, args |-> cmd.args, no |-> conn[c].sent + 1])
    /\ Local

\* `server.stop_event.set()`: shutdown is requested
StopEventSet ==
    /\ ~stop_event
    /\ stop_event' = TRUE
    /\ UNCHANGED <<store, conn, arrival, pushed, popped, now, timers, timerErr, lastSet, wire>>
    /\ Heaps(lheap, sheap)

\* the client writes cmd to the connection without waiting for the replies to the
\* commands it sent before; the bytes arrive at the server's socket
Send(c, cmd) ==
    /\ conn[c].pc \notin {"crashed", "closed"}
    /\ conn[c].peer = "open"
    /\ conn[c].sent < PipeCmds
    /\ conn' = [conn EXCEPT ![c].sent = @ + 1,
                            ![c].inq = Append(@, [name |-> cmd.name, args |-> cmd.args,
                                                  no |-> conn[c].sent + 1])]
    /\ UNCHANGED arrival
    /\ Local

\* `Command.parse(sock.makefile("rb"))`: the buffered reader made for this one call
\* reads all the bytes that have arrived, Command.parse takes the first command out of
\* the reader's buffer, and the reader is dropped together with the rest of its buffer
Recv(c) ==
    /\ At(c, "idle")
    /\ conn[c].inq # <<>>
    /\ HandleCommand(c, Head(conn[c].inq))
    /\ Local

\* the client closes its end of the connection
PeerClose(c) ==
    /\ conn[c].pc \notin {"crashed", "closed"}
    /\ conn[c].peer = "open"
    /\ conn' = [conn EXCEPT ![c].peer = "closed"]
    /\ UNCHANGED arrival
    /\ Local

\* Command.parse reads end of file: _safe_read raises ConnectionResetError,
\* handle_connection breaks out of its loop and runs `sock.close()`
ReadEof(c) ==
    /\ At(c, "idle")
    /\ conn[c].peer = "closed"
    /\ conn[c].inq = <<>>
    /\ conn' = [conn EXCEPT ![c].pc = "closed", ![c].sock = "closed"]
    /\ UNCHANGED arrival
    /\ Local

\* the client sends bytes that are no command.  A wrong prefix or a length that is no
\* integer makes Command.parse raise ValueError, which handle_connection answers with
\* "-ERR ..." before it reads on; a bulk string shorter or longer than its promised
\* length fails the assert of Command.parse, which nothing catches.
BadFrames == {"prefix", "length"}
ParseError(c, bad) ==
    /\ At(c, "idle")
    /\ conn[c].left > 0
    /\ conn[c].peer = "open"
    /\ conn[c].inq = <<>>
    /\ LET cmd == [name |-> "", args |-> <<>>, no |-> conn[c].sent + 1]
       IN IF bad = "prefix"
          THEN Reject(c, cmd, "Expected array for command")
          ELSE /\ conn' = [conn EXCEPT ![c] = [Crashed(c, "AssertionError") EXCEPT
                                                  !.left = conn[c].left - 1,
                                                  !.sent = cmd.no, !.no = cmd.no]]
               /\ UNCHANGED arrival
    /\ Local

-----------------------------------------------------------------------------
(***************************************************************************)
(* RPUSH and LPUSH                                                         *)
(***************************************************************************)
\* `if key not in self.store:`
PushIn(c) ==
    /\ conn[c].pc \in {"rpush_in", "lpush_in"}
    /\ LET r == conn[c].name = "RPUSH"
       IN IF store[conn[c].key].tag = "none"
          THEN Goto(c, IF r THEN "rpush_new" ELSE "lpush_new")
          ELSE Goto(c, IF r THEN "rpush_assert" ELSE "lpush_assert")
    /\ Local

\* `self.store[key] = []`
PushNew(c) ==
    /\ conn[c].pc \in {"rpush_new", "lpush_new"}
    /\ store' = [store EXCEPT ![conn[c].key] = ListV(NewL)]
    /\ conn' = [conn EXCEPT ![c].pc = IF conn[c].name = "RPUSH" THEN "rpush_assert" ELSE "lpush_assert",
                            ![c].dirty = TRUE]
    /\ UNCHANGED <<arrival, pushed, popped, now, stop_event, wire, timers, timerErr, lastSet>>
    /\ Heaps([lheap EXCEPT ![NewL] = <<>>], sheap)

\* `assert isinstance(self.store[key], list)`
PushAssert(c) ==
    /\ conn[c].pc \in {"rpush_assert", "lpush_assert"}
    /\ LET v == store[conn[c].key]
       IN CASE v.tag = "none" -> Raise(c, "KeyError")
            [] v.tag = "list" -> Goto(c, IF conn[c].name = "RPUSH" THEN "rpush_app" ELSE "lpush_ins")
            [] OTHER -> Raise(c, "AssertionError")
    /\ Local

\* the list after one `append(value)` / `insert(0, value)`
ListAppend(xs, x) == Append(xs, x)
ListInsert0(xs, x) == <<x>> \o xs

\* one pass of `for value in values: self.store[key].append(value)` (or .insert(0, value))
PushOne(c) ==
    /\ conn[c].pc \in {"rpush_app", "lpush_ins"}
    /\ LET v == store[conn[c].key]
           x == conn[c].args[conn[c].i]
           last == conn[c].i = Len(conn[c].args)
           r == conn[c].name = "RPUSH"
       IN CASE v.tag = "none" -> Raise(c, "KeyError") /\ Local
            [] v.tag = "str" -> Raise(c, "AttributeError") /\ Local
            [] v.tag = "stream" -> Raise(c, "TypeError") /\ Local
            [] OTHER ->
                 /\ conn' = [conn EXCEPT ![c].i = @ + 1, ![c].dirty = TRUE,
                                         ![c].pc = IF ~last THEN @
                                                   ELSE IF r THEN "rpush_len" ELSE "lpush_len"]
                 /\ pushed' = pushed + 1
                 /\ UNCHANGED <<store, arrival, popped, now, stop_event, wire, timers, timerErr, lastSet>>
                 /\ Heaps([lheap EXCEPT ![v.obj] = IF r THEN ListAppend(@, x) ELSE ListInsert0(@, x)],
                          sheap)

\* len(x) of whatever the dict holds
LenOf(v) ==
    CASE v.tag = "list" -> Len(lheap[v.obj])
      [] v.tag = "stream" -> Len(sheap[v.obj])
      [] OTHER -> StrLen(v.val)

\* `return Integer(len(self.store[key]))`
PushLen(c) ==
    /\ conn[c].pc \in {"rpush_len", "lpush_len"}
    /\ LET v == store[conn[c].key]
       IN IF v.tag = "none" THEN Raise(c, "KeyError")
          ELSE Return(c, Integer(conn[c].name, LenOf(v)), conn[c].dirty)
    /\ Local

(***************************************************************************)
(* LLEN: `Integer(len(self.store.get(key, [])))`                           *)
(***************************************************************************)
Llen(c) ==
    /\ At(c, "llen")
    /\ LET v == store[conn[c].key]
       IN Return(c, Integer("LLEN", IF v.tag = "none" THEN 0 ELSE LenOf(v)), FALSE)
    /\ Local

(***************************************************************************)
(* LRANGE                                                                  *)
(***************************************************************************)
\* `li = self.store.get(key)`, the None test and the assert on li
LrangeGet(c) ==
    /\ At(c, "lrange_get")
    /\ LET v == store[conn[c].key]
       IN CASE v.tag = "none" -> Return(c, EMPTY_ARRAY("LRANGE"), FALSE)
            [] v.tag = "list" ->
                 /\ conn' = [conn EXCEPT ![c].li = v.obj,
                                         ![c].pc = IF conn[c].start < 0 THEN "lrange_start"
                                                   ELSE "lrange_end"]
                 /\ UNCHANGED arrival
            [] OTHER -> Raise(c, "AssertionError")
    /\ Local

\* `start_str = len(li) + start_str if start_str >= -len(li) else 0`
NormStart(n, start) == IF start < 0 THEN (IF start >= 0 - n THEN n + start ELSE 0) ELSE start

NormEndShort(n, end) == Min(IF end >= 0 THEN end ELSE n + end - 1, n - 1)

\* `end_str = min(end_str if end_str >= 0 else len(li) + end_str, len(li) - 1)`
NormEnd(n, end) == Min(IF end >= 0 THEN end ELSE n + end, n - 1)

LrangeStart(c) ==
    /\ At(c, "lrange_start")
    /\ conn' = [conn EXCEPT ![c].start = NormStart(Len(lheap[conn[c].li]), @),
                            ![c].pc = "lrange_end"]
    /\ UNCHANGED arrival
    /\ Local

LrangeEnd(c) ==
    /\ At(c, "lrange_end")
    /\ conn' = [conn EXCEPT ![c].stop = NormEnd(Len(lheap[conn[c].li]), @),
                            ![c].pc = "lrange_test"]
    /\ UNCHANGED arrival
    /\ Local

\* `if start_str >= len(li) or start_str > end_str: return resp.EMPTY_ARRAY`
LrangeTest(c) ==
    /\ At(c, "lrange_test")
    /\ IF conn[c].start >= Len(lheap[conn[c].li]) \/ conn[c].start > conn[c].stop
       THEN Return(c, EMPTY_ARRAY("LRANGE"), FALSE)
       ELSE Goto(c, "lrange_slice")
    /\ Local

\* the slice xs[lo:hi] of Python, for 0 <= lo
PySlice(xs, lo, hi) ==
    LET h == Min(Max(hi, 0), Len(xs))
    IN IF lo >= h THEN <<>> ELSE SubSeq(xs, lo + 1, h)

\* `return Array(li[start_str : end_str + 1])`
LrangeSlice(c) ==
    /\ At(c, "lrange_slice")
    /\ Return(c, Array("LRANGE", PySlice(lheap[conn[c].li], conn[c].start, conn[c].stop + 1)), FALSE)
    /\ Local

(***************************************************************************)
(* LPOP.  resp.NULL_BULK is not defined by app/resp.py: evaluating it      *)
(* raises AttributeError.                                                  *)
(***************************************************************************)
\* `li = self.store.get(key)`, the None test and the assert on li
LpopGet(c) ==
    /\ At(c, "lpop_get")
    /\ LET v == store[conn[c].key]
       IN CASE v.tag = "none" -> Raise(c, "AttributeError")
            [] v.tag = "list" ->
                 /\ conn' = [conn EXCEPT ![c].li = v.obj, ![c].pc = "lpop_len"]
                 /\ UNCHANGED arrival
            [] OTHER -> Raise(c, "AssertionError")
    /\ Local

\* `if len(li) == 0: return resp.NULL_BULK`, then the count argument
LpopLen(c) ==
    /\ At(c, "lpop_len")
    /\ IF Len(lheap[conn[c].li]) = 0 THEN Raise(c, "AttributeError")
       ELSE IF Len(conn[c].args) = 1 THEN Goto(c, "lpop_pop")
       ELSE IF ~IsInt(conn[c].args[2])
            THEN Return(c, SimpleError("LPOP", "LPOP cmd: expected integer for count"), FALSE)
       ELSE Goto(c, "lpop_count")
    /\ Local

\* `item = li.pop(0)`
LpopPop(c) ==
    /\ At(c, "lpop_pop")
    /\ LET xs == lheap[conn[c].li]
       IN IF xs = <<>> THEN Raise(c, "IndexError") /\ Local
          ELSE /\ Return(c, BulkString("LPOP", Head(xs)), TRUE)
               /\ popped' = popped + 1
               /\ UNCHANGED <<store, pushed, now, stop_event, wire, timers, timerErr, lastSet>>
               /\ Heaps([lheap EXCEPT ![conn[c].li] = Tail(xs)], sheap)

\* `count = count if count <= len(li) else len(li)`
LpopCount(c) ==
    /\ At(c, "lpop_count")
    /\ LET cnt == Min(IntOf(conn[c].args[2]), Len(lheap[conn[c].li]))
       IN IF cnt <= 0 THEN Return(c, Array("LPOP", <<>>), FALSE)
          ELSE /\ conn' = [conn EXCEPT ![c].i = cnt, ![c].pc = "lpop_many"]
               /\ UNCHANGED arrival
    /\ Local

\* one `li.pop(0)` of `[li.pop(0) for _ in range(count)]`
LpopMany(c) ==
    /\ At(c, "lpop_many")
    /\ LET xs == lheap[conn[c].li]
           out == Append(conn[c].out, Head(xs))
       IN IF xs = <<>> THEN Raise(c, "IndexError") /\ Local
          ELSE /\ IF conn[c].i = 1 THEN Return(c, Array("LPOP", out), TRUE)
                  ELSE /\ conn' = [conn EXCEPT ![c].i = @ - 1, ![c].out = out, ![c].dirty = TRUE]
                       /\ UNCHANGED arrival
               /\ popped' = popped + 1
               /\ UNCHANGED <<store, pushed, now, stop_event, wire, timers, timerErr, lastSet>>
               /\ Heaps([lheap EXCEPT ![conn[c].li] = Tail(xs)], sheap)

(***************************************************************************)
(* BLPOP and Server._get_item                                              *)
(***************************************************************************)
\* _get_item returned None: the timeout test, `cur_time += sleep_time_s`, time.sleep.
\* cur_time is read only while it is below a non-zero timeout; it is kept up to the
\* first value at or above the largest timeout.
CurCap == 100 + SleepMs

\* NoItem with the sleep that is about to start counted as already slept
NoItemEarly(c) ==
    IF conn[c].timeout # 0 /\ conn[c].cur + SleepMs >= conn[c].timeout
    THEN Return(c, NULL_ARRAY("BLPOP"), FALSE)
    ELSE /\ conn' = [conn EXCEPT ![c].cur = Min(@ + SleepMs, CurCap),
                                 ![c].li = 0, ![c].pc = "blpop_get"]
         /\ UNCHANGED arrival

\* NoItem without the test `timeout != 0`
NoItemAnyTimeout(c) ==
    IF conn[c].cur >= conn[c].timeout
    THEN Return(c, NULL_ARRAY("BLPOP"), FALSE)
    ELSE /\ conn' = [conn EXCEPT ![c].cur = Min(@ + SleepMs, CurCap),
                                 ![c].li = 0, ![c].pc = "blpop_get"]
         /\ UNCHANGED arrival

NoItem(c) ==
    IF conn[c].timeout # 0 /\ conn[c].cur >= conn[c].timeout
    THEN Return(c, NULL_ARRAY("BLPOP"), FALSE)
    ELSE /\ conn' = [conn EXCEPT ![c].cur = Min(@ + SleepMs, CurCap),
                                 ![c].li = 0, ![c].pc = "blpop_get"]
         /\ UNCHANGED arrival

\* _get_item: `li = self.store.get(key)`, the None test and the assert on li
GetItemGet(c) ==
    /\ At(c, "blpop_get")
    /\ LET v == store[conn[c].key]
       IN CASE v.tag = "none" -> NoItem(c)
            [] v.tag = "list" ->
                 /\ conn' = [conn EXCEPT ![c].li = v.obj, ![c].pc = "blpop_len"]
                 /\ UNCHANGED arrival
            [] OTHER -> Raise(c, "AssertionError")
    /\ Local

\* GetItemLen with the test `len(li) > 1`
GetItemLenMore(c) ==
    /\ At(c, "blpop_len")
    /\ IF Len(lheap[conn[c].li]) > 1 THEN Goto(c, "blpop_pop") ELSE NoItem(c)
    /\ Local

\* _get_item: `if len(li) > 0:`
GetItemLen(c) ==
    /\ At(c, "blpop_len")
    /\ IF Len(lheap[conn[c].li]) > 0 THEN Goto(c, "blpop_pop") ELSE NoItem(c)
    /\ Local

\* _get_item: `return li.pop(0)`, and BLPOP's `return Array([key, item])`
GetItemPop(c) ==
    /\ At(c, "blpop_pop")
    /\ LET xs == lheap[conn[c].li]
       IN IF xs = <<>> THEN Raise(c, "IndexError") /\ Local
          ELSE /\ Return(c, Array("BLPOP", <<conn[c].key, Head(xs)>>), TRUE)
               /\ popped' = popped + 1
               /\ UNCHANGED <<store, pushed, now, stop_event, wire, timers, timerErr, lastSet>>
               /\ Heaps([lheap EXCEPT ![conn[c].li] = Tail(xs)], sheap)

(***************************************************************************)
(* SET, its PX timers, and GET                                             *)
(***************************************************************************)
\* the options of SET: `key, value, *options = cmd.args`
Options(args) == SubSeq(args, 3, Len(args))

\* the first pass at or after index i of `for i, opt in enumerate(options)` whose
\* option is PX (indices from 1), 0 if there is none
NextPX(opts, i) ==
    LET js == {j \in i..Len(opts) : Upper(opts[j]) = "PX"}
    IN IF js = {} THEN 0 ELSE CHOOSE j \in js : \A m \in js : j <= m

\* the loop over the options, from pass i on, up to its next Timer or its return
SetLoop(c, i, d) ==
    LET opts == Options(conn[c].args)
        j == NextPX(opts, i)
    IN IF j = 0 THEN Return(c, RESP_OK("SET"), d)
       ELSE IF Len(opts) <= j
            THEN Return(c, SimpleError("SET", "SET cmd: expected millis value for px option"), d)
       ELSE IF ~IsInt(opts[j + 1])
            THEN Return(c, SimpleError("SET", "SET cmd: PX option must be an integer"), d)
       ELSE /\ conn' = [conn EXCEPT ![c].pc = "set_timer", ![c].i = j, ![c].dirty = d]
            /\ UNCHANGED arrival

\* `self.store[key] = value`
SetStore(c) ==
    /\ At(c, "set_store")
    /\ LET k == conn[c].key
           v == conn[c].args[2]
       IN /\ store' = [store EXCEPT ![k] = StrV(v)]
          /\ lastSet' = [lastSet EXCEPT ![k] =
                            [by |-> c, val |-> v, dl |-> NoDeadline,
                             px |-> NextPX(Options(conn[c].args), 1) # 0,
                             alone |-> conn[c].solo]]
          /\ SetLoop(c, 1, store[k] # StrV(v))
    /\ UNCHANGED <<pushed, popped, now, stop_event, wire, timers, timerErr>>
    /\ Heaps(lheap, sheap)

\* `threading.Timer(ttl / 1000, function=self.store.pop, args=(key,)).start()`
SetTimer(c) ==
    /\ At(c, "set_timer")
    /\ LET k == conn[c].key
           ttl == IntOf(Options(conn[c].args)[conn[c].i + 1])
       IN /\ timers' = timers (+) SetToBag({[key |-> k, deadline |-> now + ttl]})
          /\ lastSet' = IF lastSet[k].by = c
                        THEN [lastSet EXCEPT ![k].dl = now + ttl]
                        ELSE lastSet
          /\ SetLoop(c, conn[c].i + 1, conn[c].dirty)
    /\ UNCHANGED <<store, pushed, popped, now, stop_event, wire, timerErr>>
    /\ Heaps(lheap, sheap)

\* the Timer thread: after ttl/1000 s it calls self.store.pop(key), which raises
\* KeyError when the key is absent
TimerFire(t) ==
    /\ BagIn(t, timers)
    /\ now >= t.deadline
    /\ timers' = timers (-) SetToBag({t})
    /\ IF store[t.key].tag = "none"
       THEN /\ timerErr' = TRUE
            /\ UNCHANGED store
       ELSE /\ store' = [store EXCEPT ![t.key] = Absent]
            /\ UNCHANGED timerErr
    /\ UNCHANGED <<conn, arrival, pushed, popped, now, stop_event, wire, lastSet>>
    /\ Heaps(lheap, sheap)

TimerThread == \E t \in BagToSet(timers) : TimerFire(t)

\* one millisecond passes
Tick ==
    /\ now < MaxTime
    /\ now' = now + 1
    /\ UNCHANGED <<store, conn, arrival, pushed, popped, timers, timerErr, stop_event, wire, lastSet>>
    /\ Heaps(lheap, sheap)

\* `value = self.store.get(key)`, `if value: return BulkString(value)`
Get(c) ==
    /\ At(c, "get")
    /\ LET v == store[conn[c].key]
       IN CASE v.tag = "str" /\ v.val # "" -> Return(c, BulkString("GET", v.val), FALSE)
            [] v.tag = "list" /\ lheap[v.obj] # <<>> -> Return(c, BulkString("GET", "<list>"), FALSE)
            [] v.tag = "stream" /\ sheap[v.obj] # <<>> -> Return(c, BulkString("GET", "<stream>"), FALSE)
            [] OTHER -> Return(c, BulkString("GET", NoneV), FALSE)
    /\ Local

(***************************************************************************)
(* TYPE                                                                    *)
(***************************************************************************)
\* `if key not in self.store: typ = "none"`
TypeIn(c) ==
    /\ At(c, "type_in")
    /\ IF store[conn[c].key].tag = "none" THEN Return(c, SimpleString("TYPE", "none"), FALSE)
       ELSE Goto(c, "type_is")
    /\ Local

\* `elif isinstance(self.store[key], resp.Stream): typ = "stream"`, `else: typ = "string"`
TypeIs(c) ==
    /\ At(c, "type_is")
    /\ LET v == store[conn[c].key]
       IN CASE v.tag = "none" -> Raise(c, "KeyError")
            [] v.tag = "stream" -> Return(c, SimpleString("TYPE", "stream"), FALSE)
            [] OTHER -> Return(c, SimpleString("TYPE", "string"), FALSE)
    /\ Local

(***************************************************************************)
(* StreamID and Stream (app/resp.py)                                       *)
(***************************************************************************)
\* the characters of the ID texts the model sends
Chars(s) ==
    CASE s = "*" -> <<"*">>
      [] s = "0" -> <<"0">>
      [] s = "1" -> <<"1">>
      [] s = "0-0" -> <<"0", "-", "0">>
      [] s = "0-1" -> <<"0", "-", "1">>
      [] s = "0-2" -> <<"0", "-", "2">>
      [] s = "1-0" -> <<"1", "-", "0">>
      [] s = "1-1" -> <<"1", "-", "1">>
      [] s = "0-*" -> <<"0", "-", "*">>
      [] s = "1-*" -> <<"1", "-", "*">>
      [] s = "-" -> <<"-">>
      [] s = "+" -> <<"+">>
      [] OTHER -> <<>>

Digits == {"0", "1", "2", "3", "4", "5", "6", "7", "8", "9"}
DigitVal(ch) == CHOOSE n \in 0..9 : ToString(n) = ch

RECURSIVE DecVal(_)
DecVal(cs) == IF cs = <<>> THEN 0 ELSE 10 * DecVal(SubSeq(cs, 1, Len(cs) - 1)) + DigitVal(cs[Len(cs)])

\* int(text): an optional sign and decimal digits; anything else raises ValueError
IntOk(cs) ==
    LET ds == IF cs # <<>> /\ cs[1] \in {"-", "+"} THEN Tail(cs) ELSE cs
    IN ds # <<>> /\ \A i \in 1..Len(ds) : ds[i] \in Digits
IntVal(cs) ==
    IF cs[1] = "-" THEN 0 - DecVal(Tail(cs))
    ELSE IF cs[1] = "+" THEN DecVal(Tail(cs))
    ELSE DecVal(cs)

\* position of the first "-" of the text, 0 if there is none
Dash(cs) ==
    LET ps == {i \in 1..Len(cs) : cs[i] = "-"}
    IN IF ps = {} THEN 0 ELSE CHOOSE i \in ps : \A j \in ps : i <= j

NoSeq == 0 - 1000000
StreamID(ms, seq) == [ok |-> TRUE, err |-> "", ms |-> ms, seq |-> seq]
IdError(msg) == [ok |-> FALSE, err |-> msg, ms |-> 0, seq |-> 0]

\* StreamID.from_str, at wall-clock time t (ms); sequence_number None is NoSeq
FromStr(cs, t) ==
    IF cs = <<"*">> THEN StreamID(t, NoSeq)
    ELSE IF Dash(cs) = 0 THEN IdError("not enough values to unpack (expected 2, got 1)")
    ELSE LET millis == SubSeq(cs, 1, Dash(cs) - 1)
             seq == SubSeq(cs, Dash(cs) + 1, Len(cs))
         IN IF ~IntOk(millis) THEN IdError("invalid literal for int() with base 10")
            ELSE IF seq = <<"*">> THEN StreamID(IntVal(millis), NoSeq)
            ELSE IF ~IntOk(seq) THEN IdError("invalid literal for int() with base 10")
            ELSE StreamID(IntVal(millis), IntVal(seq))

\* Stream._resolve_id on the entries `values`
ResolveId(values, given) ==
    IF given.ms = 0 THEN StreamID(0, 1)
    ELSE IF Len(values) = 0 THEN StreamID(given.ms, 0)
    ELSE IF values[Len(values)].ms = given.ms THEN StreamID(given.ms, values[Len(values)].seq + 1)
    ELSE StreamID(given.ms, 0)

\* the order of the dataclass StreamID(order=True): by (milliseconds_time, sequence_number)
IdLess(a, b) == a.ms < b.ms \/ (a.ms = b.ms /\ a.seq < b.seq)
IdGeq(a, b) == ~IdLess(a, b)

\* StreamID.__str__
IdStr(e) == ToString(e.ms) \o "-" \o ToString(e.seq)

\* dict(zip(values[::2], values[1::2])) as the sequence of its items
RECURSIVE DictZip(_)
DictZip(vs) ==
    IF Len(vs) < 2 THEN <<>>
    ELSE LET rest == DictZip(SubSeq(vs, 1, Len(vs) - 2))
             k == vs[Len(vs) - 1]
             v == vs[Len(vs)]
         IN IF \E i \in 1..Len(rest) : rest[i][1] = k
            THEN [i \in 1..Len(rest) |-> IF rest[i][1] = k THEN <<k, v>> ELSE rest[i]]
            ELSE Append(rest, <<k, v>>)

StreamValue(id, values) == [ms |-> id.ms, seq |-> id.seq, values |-> values]

MsgZero == "The ID specified in XADD must be greater than 0-0"
MsgTop == "The ID specified in XADD is equal or smaller than the target stream top item"
MsgWrongType(c) == c \o " cmd: WRONGTYPE Operation against a key holding the wrong kind of value"

(***************************************************************************)
(* XADD                                                                    *)
(***************************************************************************)
\* `if key not in self.store:`
XaddIn(c) ==
    /\ At(c, "xadd_in")
    /\ Goto(c, IF store[conn[c].key].tag = "none" THEN "xadd_new" ELSE "xadd_type")
    /\ Local

\* `if len(values) % 2 != 0: return SimpleError(...)`, values being args[3:]
XaddValues(c, d) ==
    IF (Len(conn[c].args) - 2) % 2 # 0
    THEN Return(c, SimpleError("XADD", "XADD cmd: no value given for key"), d)
    ELSE /\ conn' = [conn EXCEPT ![c].pc = "xadd_get", ![c].dirty = d]
         /\ UNCHANGED arrival

\* `self.store[key] = resp.Stream()`
XaddNew(c) ==
    /\ At(c, "xadd_new")
    /\ store' = [store EXCEPT ![conn[c].key] = StreamV(NewS)]
    /\ XaddValues(c, TRUE)
    /\ UNCHANGED <<pushed, popped, now, stop_event, wire, timers, timerErr, lastSet>>
    /\ Heaps(lheap, [sheap EXCEPT ![NewS] = <<>>])

\* `elif not isinstance(self.store[key], resp.Stream):`
XaddType(c) ==
    /\ At(c, "xadd_type")
    /\ LET v == store[conn[c].key]
       IN CASE v.tag = "none" -> Raise(c, "KeyError")
            [] v.tag = "stream" -> XaddValues(c, FALSE)
            [] OTHER -> Return(c, SimpleError("XADD", MsgWrongType("XADD")), FALSE)
    /\ Local

\* Stream.append once the ID is resolved: the test against 0-0, then on to the test
\* against the top entry
XaddResolved(c, obj, id) ==
    IF id.ms = 0 /\ id.seq = 0 THEN Return(c, SimpleError("XADD", MsgZero), conn[c].dirty)
    ELSE /\ conn' = [conn EXCEPT ![c].pc = "xadd_check", ![c].st = obj,
                                 ![c].start = id.ms, ![c].stop = id.seq]
         /\ UNCHANGED arrival

\* `stream = self.store[key]`, the assert, and in Stream.append `StreamID.from_str(id_str)`
XaddGet(c) ==
    /\ At(c, "xadd_get")
    /\ LET v == store[conn[c].key]
           given == FromStr(Chars(conn[c].args[2]), now)
       IN CASE v.tag = "none" -> Raise(c, "KeyError")
            [] v.tag \in {"str", "list"} -> Raise(c, "AssertionError")
            [] OTHER ->
                 IF ~given.ok THEN Return(c, SimpleError("XADD", given.err), conn[c].dirty)
                 ELSE IF given.seq = NoSeq
                      THEN /\ conn' = [conn EXCEPT ![c].pc = "xadd_resolve", ![c].st = v.obj,
                                                   ![c].start = given.ms]
                           /\ UNCHANGED arrival
                 ELSE XaddResolved(c, v.obj, given)
    /\ Local

\* Stream.append: `self._resolve_id(given_id)`
XaddResolve(c) ==
    /\ At(c, "xadd_resolve")
    /\ XaddResolved(c, conn[c].st, ResolveId(sheap[conn[c].st], StreamID(conn[c].start, NoSeq)))
    /\ Local

\* Stream.append: `if len(self.values) >= 1 and self.values[-1].id >= resolved_id: raise`
TopRejects(values, id) == Len(values) >= 1 /\ IdGeq(values[Len(values)], id)

XaddCheck(c) ==
    /\ At(c, "xadd_check")
    /\ IF TopRejects(sheap[conn[c].st], StreamID(conn[c].start, conn[c].stop))
       THEN Return(c, SimpleError("XADD", MsgTop), conn[c].dirty)
       ELSE Goto(c, "xadd_append")
    /\ Local

\* Stream.append: `self.values.append(StreamValue(id=resolved_id, values=values))`
XaddAppend(c) ==
    /\ At(c, "xadd_append")
    /\ conn' = [conn EXCEPT ![c].pc = "xadd_reply", ![c].dirty = TRUE]
    /\ UNCHANGED <<store, arrival, pushed, popped, now, stop_event, wire, timers, timerErr, lastSet>>
    /\ Heaps(lheap,
             [sheap EXCEPT ![conn[c].st] =
                 Append(@, StreamValue(StreamID(conn[c].start, conn[c].stop),
                                       DictZip(SubSeq(conn[c].args, 3, Len(conn[c].args)))))])

\* `return BulkString(str(stream[-1].id))`
XaddReply(c) ==
    /\ At(c, "xadd_reply")
    /\ LET vs == sheap[conn[c].st]
       IN Return(c, BulkString("XADD", IdStr(vs[Len(vs)])), conn[c].dirty)
    /\ Local

(***************************************************************************)
(* XRANGE                                                                  *)
(***************************************************************************)
\* an exception raised instead of a StreamID
IdRaise(e) == [ok |-> FALSE, err |-> e, ms |-> 0, seq |-> 0]

\* StreamID.from_str_xrange(s, start=start); None is NoSeq
FromStrXrange(cs, start) ==
    IF cs = <<"-">> THEN (IF start THEN StreamID(0, 0) ELSE IdRaise("AssertionError"))
    ELSE IF cs = <<"+">> THEN (IF ~start THEN StreamID(NoSeq, NoSeq) ELSE IdRaise("AssertionError"))
    ELSE IF Dash(cs) # 0
         THEN LET millis == SubSeq(cs, 1, Dash(cs) - 1)
                  seq == SubSeq(cs, Dash(cs) + 1, Len(cs))
              IN IF IntOk(millis) /\ IntOk(seq) THEN StreamID(IntVal(millis), IntVal(seq))
                 ELSE IdRaise("ValueError")
    ELSE IF ~IntOk(cs) THEN IdRaise("ValueError")
    ELSE StreamID(IntVal(cs), IF start THEN 0 ELSE NoSeq)

\* a <= b of the dataclass StreamID(order=True): the tuples (ms, seq) are compared, the
\* second parts only when the first are equal; an int compared with None is a TypeError
IdLeqRaises(a, b) == a.ms = b.ms /\ (a.seq = NoSeq) # (b.seq = NoSeq)
IdLeq(a, b) == a.ms < b.ms \/ (a.ms = b.ms /\ a.seq <= b.seq)

\* Stream.__getitem__ with the slice start:stop
StreamGetItem(values, start, stop) ==
    IF stop.ms = NoSeq /\ stop.seq = NoSeq /\ values = <<>>
    THEN [err |-> "IndexError", values |-> <<>>]
    ELSE LET top == IF stop.ms = NoSeq /\ stop.seq = NoSeq THEN values[Len(values)] ELSE stop
             Raises(v) == IdLeqRaises(start, v) \/ (IdLeq(start, v) /\ IdLeqRaises(v, top))
             Inside(v) == IdLeq(start, v) /\ IdLeq(v, top)
         IN IF \E i \in 1..Len(values) : Raises(values[i])
            THEN [err |-> "TypeError", values |-> <<>>]
            ELSE [err |-> "", values |-> SelectSeq(values, Inside)]

\* `for key, value in entry.values.items(): inner.append(key); inner.append(value)`
Inner(items) == [j \in 1..(2 * Len(items)) |-> items[(j + 1) \div 2][IF j % 2 = 1 THEN 1 ELSE 2]]

\* the list `res` of XRANGE: for every entry its ID as text and its keys and values
XrangeRes(entries) == [i \in 1..Len(entries) |-> <<IdStr(entries[i]), Inner(entries[i].values)>>]

\* `if key not in self.store: return EMPTY_ARRAY`
XrangeIn(c) ==
    /\ At(c, "xrange_in")
    /\ IF store[conn[c].key].tag = "none" THEN Return(c, EMPTY_ARRAY("XRANGE"), FALSE)
       ELSE Goto(c, "xrange_get")
    /\ Local

\* `stream = self.store[key]`, the test of its type, and the two from_str_xrange
XrangeGet(c) ==
    /\ At(c, "xrange_get")
    /\ LET v == store[conn[c].key]
           start_id == FromStrXrange(Chars(conn[c].args[2]), TRUE)
           end_id == FromStrXrange(Chars(conn[c].args[3]), FALSE)
       IN CASE v.tag = "none" -> Raise(c, "KeyError")
            [] v.tag \in {"str", "list"} ->
                 Return(c, SimpleError("XRANGE", MsgWrongType("XRANGE")), FALSE)
            [] OTHER ->
                 IF ~start_id.ok THEN Raise(c, start_id.err)
                 ELSE IF ~end_id.ok THEN Raise(c, end_id.err)
                 ELSE /\ conn' = [conn EXCEPT ![c].pc = "xrange_slice", ![c].st = v.obj]
                      /\ UNCHANGED arrival
    /\ Local

\* `stream_range = stream[start_id:end_id]` and the reply made of it
XrangeSlice(c) ==
    /\ At(c, "xrange_slice")
    /\ LET start_id == FromStrXrange(Chars(conn[c].args[2]), TRUE)
           end_id == FromStrXrange(Chars(conn[c].args[3]), FALSE)
           stream_range == StreamGetItem(sheap[conn[c].st], start_id, end_id)
       IN IF stream_range.err # "" THEN Raise(c, stream_range.err)
          ELSE Return(c, Array("XRANGE", XrangeRes(stream_range.values)), FALSE)
    /\ Local

-----------------------------------------------------------------------------
(***************************************************************************)
(* The list commands under concurrency.                                    *)
(***************************************************************************)
ListCmds ==
    {Cmd("RPUSH", <<k, x>>) : k \in Keys, x \in {"a"}}
      \cup {Cmd("RPUSH", <<k, "a", "b">>) : k \in Keys}
      \cup {Cmd("LPUSH", <<k, "a", "b">>) : k \in Keys}
      \cup {Cmd("LLEN", <<k>>) : k \in Keys}
      \cup {Cmd("LRANGE", <<k, "-2", "-1">>) : k \in Keys}
      \cup {Cmd("LPOP", <<k>>) : k \in Keys}
      \cup {Cmd("LPOP", <<k, "2">>) : k \in Keys}
      \cup {Cmd("BLPOP", <<k, t>>) : k \in Keys, t \in {"0", "0.05"}}

NoConn == [c \in Conns |-> IdleConn(MaxCmds, NoReply, FALSE)]
NoHeap == [o \in ObjIds |-> <<>>]

InitList ==
    /\ \E xs \in {<<>>, <<"a">>} :
          \/ /\ store = [k \in Keys |-> Absent]
             /\ lheap = NoHeap
             /\ xs = <<>>
             /\ pushed = 0
          \/ /\ store = [k \in Keys |-> ListV(1)]
             /\ lheap = [NoHeap EXCEPT ![1] = xs]
             /\ pushed = Len(xs)
    /\ sheap = NoHeap
    /\ conn = NoConn
    /\ arrival = <<>>
    /\ popped = 0
    /\ now = 0
    /\ timers = EmptyBag
    /\ timerErr = FALSE
    /\ stop_event = FALSE
    /\ wire = NoWire
    /\ lastSet = NoSet

NextList ==
    \E c \in Conns :
        \/ \E cmd \in ListCmds : Begin(c, cmd)
        \/ PushIn(c)
        \/ PushNew(c)
        \/ PushAssert(c)
        \/ PushOne(c)
        \/ PushLen(c)
        \/ Llen(c)
        \/ LrangeGet(c)
        \/ LrangeStart(c)
        \/ LrangeEnd(c)
        \/ LrangeTest(c)
        \/ LrangeSlice(c)
        \/ LpopGet(c)
        \/ LpopLen(c)
        \/ LpopPop(c)
        \/ LpopCount(c)
        \/ LpopMany(c)
        \/ GetItemGet(c)
        \/ GetItemLen(c)
        \/ GetItemPop(c)

SpecList == InitList /\ [][NextList]_vars

-----------------------------------------------------------------------------
(***************************************************************************)
(* Properties of the list commands.                                        *)
(***************************************************************************)
BlpopPcs == {"blpop_get", "blpop_len", "blpop_pop"}
Index(seq, x) == CHOOSE i \in 1..Len(seq) : seq[i] = x
Before(a, b) ==
    /\ \E i \in 1..Len(arrival) : arrival[i] = a
    /\ \E i \in 1..Len(arrival) : arrival[i] = b
    /\ Index(arrival, a) < Index(arrival, b)
\* c is inside BLPOP and has found nothing at least once
Parked(c) == conn[c].pc \in BlpopPcs /\ conn[c].cur > 0

\* C1: BLPOP FIFO.  With a single element ever pushed to the key, a waiter b never
\* receives [key, element] while a waiter a that entered BLPOP on the same key before b
\* is still waiting.
C1_BlpopFifo ==
    [][\A a, b \in Conns :
          ~ /\ a # b
            /\ pushed = 1
            /\ Parked(a)
            /\ Parked(b)
            /\ conn[a].key = conn[b].key
            /\ Before(a, b)
            /\ conn[b].pc = "blpop_pop"
            /\ conn'[b].reply.t = "array"]_vars

\* C2: at-most-one-wake.  With a single element ever pushed to the key, at most one
\* BLPOP returns [key, element], and no waiter that was parked fails by popping from
\* an empty list.
C2_AtMostOneWake ==
    pushed = 1 =>
        /\ Cardinality({c \in Conns : conn[c].reply.cmd = "BLPOP" /\ conn[c].reply.t = "array"}) <= 1
        /\ \A c \in Conns :
              ~ /\ conn[c].pc = "crashed"
                /\ conn[c].name = "BLPOP"
                /\ conn[c].err = "IndexError"
                /\ conn[c].cur > 0

\* C3: keyspace atomicity.  When every connection has run at most one command, an
\* RPUSH, all of them have returned and nothing was popped, the list at each key holds
\* as many elements as were pushed.
C3_RpushLength ==
    (/\ \A c \in Conns :
            /\ conn[c].pc = "idle"
            /\ conn[c].left >= MaxCmds - 1
            /\ conn[c].reply.cmd \in {"", "RPUSH"}
     /\ popped = 0)
    => \A k \in Keys :
          (IF store[k].tag = "list" THEN Len(lheap[store[k].obj]) ELSE 0) = pushed

\* d has pushed some but not all values of a multi-value RPUSH/LPUSH
MidPush(d) ==
    /\ conn[d].pc \in {"rpush_app", "lpush_ins"}
    /\ 2 < conn[d].i
    /\ conn[d].i <= Len(conn[d].args)
\* the list object a step of c at its current position reads, 0 if none
ReadObj(c) ==
    IF conn[c].pc = "llen" /\ store[conn[c].key].tag = "list" THEN store[conn[c].key].obj
    ELSE IF conn[c].pc \in {"lrange_start", "lrange_end", "lrange_test", "lrange_slice",
                            "lpop_len", "lpop_pop", "lpop_count", "lpop_many",
                            "blpop_len", "blpop_pop"} THEN conn[c].li
    ELSE 0

\* C4: no LLEN, LRANGE, LPOP or BLPOP step of one connection reads a list while another
\* connection has pushed only some of the values of its RPUSH or LPUSH to that list.
C4_NoPartialPush ==
    [][\A c, d \in Conns :
          ~ /\ c # d
            /\ MidPush(d)
            /\ store[conn[d].key].tag = "list"
            /\ ReadObj(c) = store[conn[d].key].obj
            /\ conn'[c] # conn[c]]_vars

\* C28: element conservation.  The elements pushed so far are the elements popped so far
\* plus the elements in the list, and no pop has been attempted on an empty list.
C28_Conservation ==
    /\ \A c \in Conns : ~(conn[c].pc = "crashed" /\ conn[c].err = "IndexError")
    /\ \A k \in Keys :
          pushed = popped + (IF store[k].tag = "list" THEN Len(lheap[store[k].obj]) ELSE 0)

-----------------------------------------------------------------------------
(***************************************************************************)
(* SET with PX, the Timer threads and GET.                                 *)
(***************************************************************************)
TtlCmds ==
    {Cmd("SET", <<k, "v">> \o o) : k \in Keys, o \in {<<>>, <<"PX", "1">>, <<"PX">>}}
      \cup {Cmd("SET", <<k, "w">> \o o) : k \in Keys, o \in {<<>>, <<"px", "2">>, <<"PX", "x">>}}
      \cup {Cmd("SET", <<k>>) : k \in Keys}
      \cup {Cmd("GET", <<k>>) : k \in Keys}

InitTtl ==
    /\ store = [k \in Keys |-> Absent]
    /\ lheap = NoHeap
    /\ sheap = NoHeap
    /\ conn = NoConn
    /\ arrival = <<>>
    /\ pushed = 0
    /\ popped = 0
    /\ now = 0
    /\ timers = EmptyBag
    /\ timerErr = FALSE
    /\ stop_event = FALSE
    /\ wire = NoWire
    /\ lastSet = NoSet

NextTtl ==
    \/ \E c \in Conns :
          \/ \E cmd \in TtlCmds : Begin(c, cmd)
          \/ SetStore(c)
          \/ SetTimer(c)
          \/ Get(c)
    \/ TimerThread
    \/ Tick

SpecTtl == InitTtl /\ [][NextTtl]_vars

\* C5: while the SET that wrote k last carried no PX option (and ran after every earlier
\* SET had returned), k holds that SET's value: no expiry removes it.
C5_SetClearsDeadline ==
    \A k \in Keys :
        (lastSet[k].val # NoneV /\ lastSet[k].alone /\ ~lastSet[k].px)
            => store[k] = StrV(lastSet[k].val)

\* C6: a PX on a later SET replaces the prior deadline: until the deadline given by the
\* SET that wrote k last, k holds that SET's value.
C6_PxReplacesDeadline ==
    \A k \in Keys :
        (/\ lastSet[k].val # NoneV
         /\ lastSet[k].alone
         /\ lastSet[k].dl # NoDeadline
         /\ now < lastSet[k].dl)
            => store[k] = StrV(lastSet[k].val)

\* C7: a GET of k at or after the deadline of k replies the null bulk string and leaves
\* k absent, whether or not the Timer has run; a GET before the deadline replies the
\* stored value.
C7_LazyExpiry ==
    [][\A c \in Conns :
          (/\ At(c, "get")
           /\ conn'[c].pc = "idle"
           /\ lastSet[conn[c].key].alone
           /\ lastSet[conn[c].key].dl # NoDeadline)
          => LET k == conn[c].key
             IN IF now >= lastSet[k].dl
                THEN conn'[c].reply.t = "nullbulk" /\ store'[k] = Absent
                ELSE conn'[c].reply = BulkString("GET", lastSet[k].val)]_vars

\* the replies of the form "<CMD> cmd: <reason>"
IsCmdError(rep) ==
    /\ rep.t = "error"
    /\ rep.s \in {"ECHO cmd: wrong number of arguments",
                  "SET cmd: expected key and value",
                  "SET cmd: expected millis value for px option",
                  "SET cmd: PX option must be an integer",
                  "GET cmd: expected key",
                  "RPUSH cmd: expected key and value",
                  "LRANGE cmd: expected key, start, end",
                  "LRANGE cmd: expected integer for start, end",
                  "LPUSH cmd: expected key and value",
                  "LLEN cmd: expected key",
                  "LPOP cmd: expected key",
                  "LPOP cmd: expected integer for count",
                  "BLPOP cmd: expected key and timeout",
                  "BLPOP cmd: expected number for timeout",
                  "TYPE cmd: expected key",
                  "XADD cmd: expected key, id",
                  "XADD cmd: no value given for key",
                  "XRANGE cmd: expected key, start, end",
                  "XREAD cmd: expected STREAMS, from"}

\* C10: a command that replies an error "<CMD> cmd: <reason>" has not changed the keyspace.
C10_ErrorNoMutation ==
    \A c \in Conns : IsCmdError(conn[c].reply) => ~conn[c].dirty

\* C27: a Timer that fires for a key that is absent does nothing: it raises no error and
\* leaves the keyspace as it is.
C27_TimerIdempotent ==
    [][(\E t \in BagToSet(timers) :
           /\ timers' = timers (-) SetToBag({t})
           /\ store[t.key].tag = "none")
         => (timerErr' = timerErr /\ store' = store)]_vars

-----------------------------------------------------------------------------
(***************************************************************************)
(* XADD under concurrency.                                                 *)
(***************************************************************************)
IdTexts == {"*", "1", "0-0", "0-1", "0-2", "1-0", "0-*", "1-*"}
StreamCmds ==
    {Cmd("XADD", <<k, id, "f", "v">>) : k \in Keys, id \in IdTexts}
      \cup {Cmd("XADD", <<k, "0-1", "f">>) : k \in Keys}
      \cup {Cmd("XADD", <<k, "0-1">>) : k \in Keys}

\* the clients that send XADD; the other connections stay silent
StreamConn ==
    [c \in Conns |-> IdleConn(IF c <= StreamClients THEN MaxCmds ELSE 0, NoReply, FALSE)]

InitStream ==
    /\ \E vs \in {<<>>, <<StreamValue(StreamID(0, 1), <<<<"f", "v">>>>)>>} :
          \/ /\ store = [k \in Keys |-> Absent]
             /\ sheap = NoHeap
             /\ vs = <<>>
          \/ /\ store = [k \in Keys |-> StreamV(1)]
             /\ sheap = [NoHeap EXCEPT ![1] = vs]
             /\ vs # <<>>
    /\ lheap = NoHeap
    /\ conn = StreamConn
    /\ arrival = <<>>
    /\ pushed = 0
    /\ popped = 0
    /\ now = 1
    /\ timers = EmptyBag
    /\ timerErr = FALSE
    /\ stop_event = FALSE
    /\ wire = NoWire
    /\ lastSet = NoSet

NextStream ==
    \/ \E c \in Conns :
          \/ \E cmd \in StreamCmds : Begin(c, cmd)
          \/ XaddIn(c)
          \/ XaddNew(c)
          \/ XaddType(c)
          \/ XaddGet(c)
          \/ XaddResolve(c)
          \/ XaddCheck(c)
          \/ XaddAppend(c)
          \/ XaddReply(c)
    \/ Tick

SpecStream == InitStream /\ [][NextStream]_vars

Increasing(values) ==
    \A i \in 1..(Len(values) - 1) : IdLess(values[i], values[i + 1])

\* C8: stream monotonicity.  In every reachable state the entry IDs of every stream of
\* the keyspace are strictly increasing in (ms, seq) order.
C8_StreamMonotonic ==
    \A k \in Keys : store[k].tag = "stream" => Increasing(sheap[store[k].obj])

\* C9: an XADD that replies one of the two ID errors has left the keyspace unchanged.
C9_RejectedXaddNoChange ==
    \A c \in Conns :
        (conn[c].reply.t = "error" /\ conn[c].reply.s \in {MsgZero, MsgTop}) => ~conn[c].dirty

\* the sequence number the auto-sequence policy gives to ms on the entries `values`
\* C26: an ID given without a sequence number gets top.seq + 1 if the top entry has the
\* same ms, else 1 if ms is 0, else 0; XADD 0-* on a stream with top 0-1 gets 0-2.
C26_AutoSequence ==
    [][LET PolicySeq(values, ms) ==
               IF Len(values) > 0 /\ values[Len(values)].ms = ms
               THEN values[Len(values)].seq + 1
               ELSE IF ms = 0 THEN 1
               ELSE 0
       IN \A c \in Conns :
             (At(c, "xadd_resolve") /\ conn'[c].pc # "xadd_resolve")
               => /\ conn'[c].pc = "xadd_check"
                  /\ conn'[c].start = conn[c].start
                  /\ conn'[c].stop = PolicySeq(sheap[conn[c].st], conn[c].start)]_vars

-----------------------------------------------------------------------------
(***************************************************************************)
(* Commands on keys of every type, and the life of a connection.           *)
(***************************************************************************)
TypeCmds ==
    {Cmd("GET", <<k>>) : k \in Keys}
      \cup {Cmd("LLEN", <<k>>) : k \in Keys}
      \cup {Cmd("LRANGE", <<k, "-2", "-1">>) : k \in Keys}
      \cup {Cmd("RPUSH", <<k, "a">>) : k \in Keys}
      \cup {Cmd("LPUSH", <<k, "a">>) : k \in Keys}
      \cup {Cmd("LPOP", <<k>>) : k \in Keys}
      \cup {Cmd("BLPOP", <<k, "0.05">>) : k \in Keys}
      \cup {Cmd("XADD", <<k, "0-2", "f", "v">>) : k \in Keys}

\* the clients that are connected and send commands; the other connections stay silent
TypeConn ==
    [c \in Conns |-> IdleConn(IF c <= TypeClients THEN MaxCmds ELSE 0, NoReply, FALSE)]

InitType ==
    /\ \E tag \in {"str", "list", "stream"} :
          /\ store = [k \in Keys |-> CASE tag = "str" -> StrV("v")
                                      [] tag = "list" -> ListV(1)
                                      [] OTHER -> StreamV(1)]
          /\ lheap = IF tag = "list" THEN [NoHeap EXCEPT ![1] = <<"a">>] ELSE NoHeap
          /\ sheap = IF tag = "stream"
                     THEN [NoHeap EXCEPT ![1] = <<StreamValue(StreamID(0, 1), <<<<"f", "v">>>>)>>]
                     ELSE NoHeap
          /\ pushed = IF tag = "list" THEN 1 ELSE 0
    /\ conn = TypeConn
    /\ arrival = <<>>
    /\ popped = 0
    /\ now = 0
    /\ timers = EmptyBag
    /\ timerErr = FALSE
    /\ stop_event = FALSE
    /\ wire = NoWire
    /\ lastSet = NoSet

NextType ==
    \E c \in 1..TypeClients :
        \/ \E cmd \in TypeCmds : Begin(c, cmd)
        \/ \E bad \in BadFrames : ParseError(c, bad)
        \/ PeerClose(c)
        \/ ReadEof(c)
        \/ PushIn(c)
        \/ PushAssert(c)
        \/ PushOne(c)
        \/ PushLen(c)
        \/ Llen(c)
        \/ LrangeGet(c)
        \/ LrangeStart(c)
        \/ LrangeEnd(c)
        \/ LrangeTest(c)
        \/ LrangeSlice(c)
        \/ LpopGet(c)
        \/ LpopLen(c)
        \/ LpopPop(c)
        \/ GetItemGet(c)
        \/ GetItemLen(c)
        \/ GetItemPop(c)
        \/ Get(c)
        \/ XaddIn(c)
        \/ XaddType(c)
        \/ XaddGet(c)
        \/ XaddCheck(c)
        \/ XaddAppend(c)
        \/ XaddReply(c)

SpecType == InitType /\ [][NextType]_vars

\* C11: an error raised while a command executes is answered and never ends the worker:
\* a worker that was executing a command has stopped only on a transport error.
C11_ErrorsBecomeReplies ==
    \A c \in Conns :
        (conn[c].pc = "crashed" /\ conn[c].name # "") => conn[c].err = "BrokenPipeError"

\* the commands whose values are strings, lists and streams
CmdTag(name) ==
    CASE name = "GET" -> "str"
      [] name \in {"LLEN", "LRANGE", "RPUSH", "LPUSH", "LPOP", "BLPOP"} -> "list"
      [] OTHER -> "stream"
HasWrongType(rep) ==
    /\ rep.t = "error"
    /\ \E n \in {cmd.name : cmd \in TypeCmds} : rep.s = MsgWrongType(n)

\* C12: a command on a key whose value has another type than the command's replies a
\* WRONGTYPE error (the type of the value of a key never changes under these commands).
C12_WrongType ==
    \A c \in Conns :
        LET done == conn[c].pc = "idle" /\ conn[c].reply.cmd # ""
            died == conn[c].pc = "crashed" /\ conn[c].name # ""
            name == IF done THEN conn[c].reply.cmd ELSE conn[c].name
        IN ((done \/ died) /\ conn[c].peer = "open"
              /\ \E k \in Keys : store[k].tag # CmdTag(name))
             => (done /\ HasWrongType(conn[c].reply))

\* C13: a worker that has stopped, for whatever reason, has closed its socket.
C13_SocketClosed ==
    \A c \in Conns : conn[c].pc \in {"crashed", "closed"} => conn[c].sock = "closed"

-----------------------------------------------------------------------------
(***************************************************************************)
(* A client that pipelines its commands.                                   *)
(***************************************************************************)
PipeCmdSet ==
    {Cmd("RPUSH", <<k, "a">>) : k \in Keys}
      \cup {Cmd("LLEN", <<k>>) : k \in Keys}
      \cup {Cmd("GET", <<k>>) : k \in Keys}

PipeConn ==
    [c \in Conns |-> IdleConn(IF c <= PipeClients THEN PipeCmds ELSE 0, NoReply, FALSE)]

InitPipe ==
    /\ store = [k \in Keys |-> Absent]
    /\ lheap = NoHeap
    /\ sheap = NoHeap
    /\ conn = PipeConn
    /\ arrival = <<>>
    /\ pushed = 0
    /\ popped = 0
    /\ now = 0
    /\ timers = EmptyBag
    /\ timerErr = FALSE
    /\ stop_event = FALSE
    /\ wire = NoWire
    /\ lastSet = NoSet

NextPipe ==
    \E c \in 1..PipeClients :
        \/ \E cmd \in PipeCmdSet : Send(c, cmd)
        \/ Recv(c)
        \/ PushIn(c)
        \/ PushNew(c)
        \/ PushAssert(c)
        \/ PushOne(c)
        \/ PushLen(c)
        \/ Llen(c)
        \/ Get(c)

SpecPipe == InitPipe /\ [][NextPipe]_vars

\* C14: on one connection the k-th reply the worker writes is the reply to the k-th
\* command the client sent, also when commands were sent before earlier replies arrived.
C14_RepliesInOrder ==
    [][\A c \in Conns :
          conn'[c].nrep # conn[c].nrep => conn'[c].nrep = conn'[c].no]_vars

-----------------------------------------------------------------------------
(***************************************************************************)
(* Blocking pops against pushes, and shutdown.                             *)
(***************************************************************************)
BlockCmds ==
    {Cmd("BLPOP", <<k, t>>) : k \in Keys, t \in {"0", "0.05", "0.07", "0.1"}}
      \cup {Cmd("RPUSH", <<k, "a">>) : k \in Keys}
      \cup {Cmd("LPUSH", <<k, "b">>) : k \in Keys}
      \cup {Cmd("LPOP", <<k>>) : k \in Keys}

\* a step of the thread of connection c inside handle_command
BlockStep(c) ==
    \/ PushIn(c)
    \/ PushNew(c)
    \/ PushAssert(c)
    \/ PushOne(c)
    \/ PushLen(c)
    \/ LpopGet(c)
    \/ LpopLen(c)
    \/ LpopPop(c)
    \/ GetItemGet(c)
    \/ GetItemLen(c)
    \/ GetItemPop(c)

NextBlock ==
    \E c \in Conns :
        \/ \E cmd \in BlockCmds : Begin(c, cmd)
        \/ BlockStep(c)

SpecBlock == InitList /\ [][NextBlock]_vars

\* the step in which BLPOP of connection c returns
BlpopReturns(c) ==
    /\ conn[c].name = "BLPOP"
    /\ conn[c].pc \in BlpopPcs
    /\ conn'[c].pc = "idle"
\* the step pops the head of the list c looks at and replies [key, head]
PopsHead(c) ==
    /\ conn[c].pc = "blpop_pop"
    /\ lheap[conn[c].li] # <<>>
    /\ popped' = popped + 1
    /\ conn'[c].reply = Array("BLPOP", <<conn[c].key, Head(lheap[conn[c].li])>>)

\* C15: a BLPOP with a timeout t > 0 that finds no element replies the null array, after
\* an accumulated wait of at least t and at most t plus one sleep of 50 ms.
C15_BlpopTimeout ==
    [][\A c \in Conns :
          (BlpopReturns(c) /\ conn[c].timeout > 0)
            => \/ PopsHead(c)
               \/ /\ conn'[c].reply = NULL_ARRAY("BLPOP")
                  /\ conn[c].cur >= conn[c].timeout
                  /\ conn[c].cur <= conn[c].timeout + SleepMs
                  /\ UNCHANGED <<store, lheap, popped>>]_vars

\* a BLPOP with a timeout that is no multiple of the sleep has timed out
C15_TimedOut ==
    \E c \in Conns :
        /\ conn[c].reply = NULL_ARRAY("BLPOP")
        /\ conn[c].pc = "idle"
        /\ \E d \in Conns \ {c} : conn[d].name = "BLPOP" /\ conn[d].timeout = 70
                                    /\ conn[d].cur = 100

\* C16: a BLPOP with timeout 0 never replies the null array: it replies only in the step
\* in which it pops an element.
C16_BlpopForever ==
    [][\A c \in Conns :
          (BlpopReturns(c) /\ conn[c].timeout = 0)
            => (PopsHead(c) /\ conn'[c].reply # NULL_ARRAY("BLPOP"))]_vars

\* a BLPOP with timeout 0 that has slept longer than every timeout is about to pop
C16_LongWait ==
    \E c \in Conns :
        /\ conn[c].name = "BLPOP"
        /\ conn[c].timeout = 0
        /\ conn[c].cur = CurCap
        /\ conn[c].pc = "blpop_pop"
        /\ lheap[conn[c].li] # <<>>

\* C18: RPUSH replies the length its own append produced.  With one element pushed in
\* all, to an absent or empty list, and no LPOP around (only BLPOP waiters), the RPUSH
\* that pushed it replies 1.
C18_PushReturnsOwnLength ==
    \A c \in Conns :
        (/\ conn[c].pc = "idle"
         /\ conn[c].reply.cmd = "RPUSH"
         /\ pushed = 1
         /\ \A d \in Conns : conn[d].name # "LPOP" /\ conn[d].reply.cmd # "LPOP")
            => conn[c].reply = Integer("RPUSH", 1)

\* C19: LPOP k on an absent key or on an empty list replies the null bulk string and leaves
\* the keyspace as it is; on a list with elements it replies the head and removes it.
C19_LpopNullOrHead ==
    [][\A c \in Conns :
          (/\ conn[c].name = "LPOP"
           /\ Len(conn[c].args) = 1
           /\ conn[c].pc \in {"lpop_get", "lpop_len", "lpop_pop"}
           /\ conn'[c].pc \notin {"lpop_get", "lpop_len", "lpop_pop"})
            => LET v == store[conn[c].key]
                   xs == IF conn[c].pc = "lpop_get"
                         THEN (IF v.tag = "list" THEN lheap[v.obj] ELSE <<>>)
                         ELSE lheap[conn[c].li]
               IN IF xs = <<>>
                  THEN /\ conn'[c].pc = "idle"
                       /\ conn'[c].reply = BulkString("LPOP", NoneV)
                       /\ UNCHANGED <<store, lheap>>
                  ELSE /\ conn'[c].pc = "idle"
                       /\ conn'[c].reply = BulkString("LPOP", Head(xs))
                       /\ lheap'[conn[c].li] = Tail(xs)]_vars

-----------------------------------------------------------------------------
(***************************************************************************)
(* Waiters under a fair scheduler.                                         *)
(***************************************************************************)
WaitCmds ==
    {Cmd("BLPOP", <<k, "0">>) : k \in Keys}
      \cup {Cmd("RPUSH", <<k, "a">>) : k \in Keys}
      \cup {Cmd("LPUSH", <<k, "b">>) : k \in Keys}

\* a step of the thread of connection c inside RPUSH, LPUSH or BLPOP
WaitStep(c) ==
    \/ PushIn(c)
    \/ PushNew(c)
    \/ PushAssert(c)
    \/ PushOne(c)
    \/ PushLen(c)
    \/ GetItemGet(c)
    \/ GetItemLen(c)
    \/ GetItemPop(c)

NextWait ==
    \E c \in Conns :
        \/ \E cmd \in WaitCmds : Begin(c, cmd)
        \/ WaitStep(c)

\* every started thread keeps being scheduled, and time.sleep returns
SpecWait == InitList /\ [][NextWait]_vars /\ \A c \in Conns : WF_vars(WaitStep(c))

\* c waits in BLPOP with timeout 0
Waiting(c) == conn[c].name = "BLPOP" /\ conn[c].timeout = 0 /\ conn[c].pc \in BlpopPcs
\* c has received [key, element]
Served(c) ==
    /\ conn[c].pc = "idle"
    /\ conn[c].reply.cmd = "BLPOP"
    /\ conn[c].reply.t = "array"
    /\ Len(conn[c].reply.a) = 2
\* a connection other than c pops, or has popped or tried to
OtherPops(c) ==
    \E d \in Conns \ {c} :
        \/ conn[d].name \in {"LPOP", "BLPOP"}
        \/ conn[d].reply.cmd \in {"LPOP", "BLPOP"}
HasElement(k) == store[k].tag = "list" /\ lheap[store[k].obj] # <<>>

\* C17: a waiter in BLPOP q 0 is eventually served once q holds an element, unless
\* another connection pops from q.
C17_WaiterServed ==
    \A c \in Conns :
        (Waiting(c) /\ Parked(c) /\ HasElement(conn[c].key)) ~> (Served(c) \/ OtherPops(c))

\* a parked waiter was served with no other connection popping
C17_ServedAlone ==
    \E c \in Conns : Served(c) /\ ~OtherPops(c) /\ popped = 1 /\ pushed >= 1
                       /\ \E d \in Conns \ {c} : conn[d].reply.cmd \in {"RPUSH", "LPUSH"}

-----------------------------------------------------------------------------
(***************************************************************************)
(* Shutdown while connections wait.                                        *)
(***************************************************************************)
StopCmds ==
    {Cmd("BLPOP", <<k, t>>) : k \in Keys, t \in {"0", "0.05"}}
      \cup {Cmd("RPUSH", <<k, "a">>) : k \in Keys}
      \cup {Cmd("LPOP", <<k>>) : k \in Keys}

StopConn ==
    [c \in Conns |-> IdleConn(IF c <= StopClients THEN MaxCmds ELSE 0, NoReply, FALSE)]

InitStop ==
    /\ store = [k \in Keys |-> Absent]
    /\ lheap = NoHeap
    /\ sheap = NoHeap
    /\ conn = StopConn
    /\ arrival = <<>>
    /\ pushed = 0
    /\ popped = 0
    /\ now = 0
    /\ timers = EmptyBag
    /\ timerErr = FALSE
    /\ stop_event = FALSE
    /\ wire = NoWire
    /\ lastSet = NoSet

NextStop ==
    \/ \E c \in 1..StopClients :
          \/ \E cmd \in StopCmds : Begin(c, cmd)
          \/ BlockStep(c)
    \/ StopEventSet

SpecStop == InitStop /\ [][NextStop]_vars

\* C20: once the stop flag is set, a connection in BLPOP that wakes from its sleep stops
\* waiting: it does not find nothing and go to sleep again.
C20_ShutdownReachesWaiters ==
    [][\A c \in Conns :
          (stop_event /\ conn[c].name = "BLPOP" /\ conn[c].pc = "blpop_get" /\ conn[c].cur > 0)
            => ~(conn'[c].pc \in BlpopPcs /\ conn'[c].cur > conn[c].cur)]_vars

(***************************************************************************)
(* TYPE and the commands that create a key, on a key of every type.        *)
(***************************************************************************)
TagCmds ==
    {Cmd("TYPE", <<k>>) : k \in Keys}
      \cup {Cmd("LLEN", <<k>>) : k \in Keys}
      \cup {Cmd("RPUSH", <<k, "a">>) : k \in Keys}
      \cup {Cmd("XADD", <<k, "0-2", "f", "v">>) : k \in Keys}

InitTag ==
    /\ \E tag \in {"none", "str", "list", "stream"} :
          /\ store = [k \in Keys |-> CASE tag = "none" -> Absent
                                      [] tag = "str" -> StrV("v")
                                      [] tag = "list" -> ListV(1)
                                      [] OTHER -> StreamV(1)]
          /\ lheap = IF tag = "list" THEN [NoHeap EXCEPT ![1] = <<"a">>] ELSE NoHeap
          /\ sheap = IF tag = "stream"
                     THEN [NoHeap EXCEPT ![1] = <<StreamValue(StreamID(0, 1), <<<<"f", "v">>>>)>>]
                     ELSE NoHeap
          /\ pushed = IF tag = "list" THEN 1 ELSE 0
    /\ conn = TypeConn
    /\ arrival = <<>>
    /\ popped = 0
    /\ now = 0
    /\ timers = EmptyBag
    /\ timerErr = FALSE
    /\ stop_event = FALSE
    /\ wire = NoWire
    /\ lastSet = NoSet

NextTag ==
    \E c \in 1..TypeClients :
        \/ \E cmd \in TagCmds : Begin(c, cmd)
        \/ TypeIn(c)
        \/ TypeIs(c)
        \/ Llen(c)
        \/ PushIn(c)
        \/ PushNew(c)
        \/ PushAssert(c)
        \/ PushOne(c)
        \/ PushLen(c)
        \/ XaddIn(c)
        \/ XaddNew(c)
        \/ XaddType(c)
        \/ XaddGet(c)
        \/ XaddCheck(c)
        \/ XaddAppend(c)
        \/ XaddReply(c)

SpecTag == InitTag /\ [][NextTag]_vars

\* C25: TYPE replies with the simple string "none" for an absent key, "string" for a
\* key set with SET, "list" for a key holding a list and "stream" for a key holding a
\* stream.
C25_TypeReports ==
    [][LET TypeName(tag) ==
               CASE tag = "none" -> "none"
                 [] tag = "str" -> "string"
                 [] tag = "list" -> "list"
                 [] OTHER -> "stream"
       IN \A c \in Conns :
             (conn[c].pc \in {"type_in", "type_is"} /\ conn'[c].pc = "idle")
               => conn'[c].reply = SimpleString("TYPE", TypeName(store[conn[c].key].tag))]_vars

\* C21: once a key is present with a type tag, no command other than SET changes the
\* tag; the key keeps its tag or is removed.  (None of the commands here is SET.)
C21_TagStable ==
    [][\A k \in Keys :
          store[k].tag # "none" => store'[k].tag \in {store[k].tag, "none"}]_vars

(***************************************************************************)
(* LRANGE with every pair of bounds on lists of every length, the list     *)
(* being read only.                                                        *)
(***************************************************************************)
RangeCmds ==
    {Cmd("LRANGE", <<k, s, e>>) : k \in Keys, s \in IntTexts, e \in IntTexts}
      \cup {Cmd("LLEN", <<k>>) : k \in Keys}

Elems == <<"a", "b", "c", "d", "e">>

RangeConn ==
    [c \in Conns |-> IdleConn(IF c <= RangeClients THEN 1 ELSE 0, NoReply, FALSE)]

InitRange ==
    /\ \E n \in 0..MaxList :
          /\ store = [k \in Keys |-> ListV(1)]
          /\ lheap = [NoHeap EXCEPT ![1] = [i \in 1..n |-> Elems[i]]]
          /\ pushed = n
    /\ sheap = NoHeap
    /\ conn = RangeConn
    /\ arrival = <<>>
    /\ popped = 0
    /\ now = 0
    /\ timers = EmptyBag
    /\ timerErr = FALSE
    /\ stop_event = FALSE
    /\ wire = NoWire
    /\ lastSet = NoSet

NextRange ==
    \E c \in 1..RangeClients :
        \/ \E cmd \in RangeCmds : Begin(c, cmd)
        \/ Llen(c)
        \/ LrangeGet(c)
        \/ LrangeStart(c)
        \/ LrangeEnd(c)
        \/ LrangeTest(c)
        \/ LrangeSlice(c)

SpecRange == InitRange /\ [][NextRange]_vars

\* C24: LRANGE on a list of length n replies with the inclusive slice [start', end'],
\* where start' = max(0, n + start) if start < 0 else start and end' = min(n - 1, end)
\* if end >= 0 else min(n - 1, n + end); the reply is the empty array when start' >= n
\* or start' > end'; and no step of LRANGE modifies the list.
C24_LrangeSlice ==
    [][\A c \in Conns :
          (conn[c].name = "LRANGE" /\ conn[c].pc # "crashed" /\ conn'[c] # conn[c])
            => LET xs == lheap[store[conn[c].key].obj]
                   n == Len(xs)
                   start == IntOf(conn[c].args[2])
                   end == IntOf(conn[c].args[3])
                   s == IF start < 0 THEN Max(0, n + start) ELSE start
                   e == IF end >= 0 THEN Min(n - 1, end) ELSE Min(n - 1, n + end)
                   slice == IF s >= n \/ s > e THEN <<>> ELSE [i \in 1..(e - s + 1) |-> xs[s + i]]
               IN /\ store' = store
                  /\ lheap' = lheap
                  /\ conn'[c].pc = "idle" => conn'[c].reply = Array("LRANGE", slice)]_vars

\* LRANGE with a negative bound has replied with a part of a longer list
C24_ProperSlice ==
    \E c \in Conns :
        /\ conn[c].reply.cmd = "LRANGE"
        /\ conn[c].reply.t = "array"
        /\ Len(conn[c].reply.a) >= 2
        /\ Len(conn[c].reply.a) < Len(lheap[store["k"].obj])
        /\ conn[c].reply.a[1] # lheap[store["k"].obj][1]

(***************************************************************************)
(* XRANGE with every pair of bounds on a stream that is read only.         *)
(***************************************************************************)
XrangeTexts == {"-", "+", "0", "1", "0-1", "1-0", "1-1"}
XrangeCmds ==
    {Cmd("XRANGE", <<k, s, e>>) : k \in Keys, s \in XrangeTexts, e \in XrangeTexts}

XrangeEntries ==
    <<StreamValue(StreamID(0, 1), <<<<"f", "v">>>>),
      StreamValue(StreamID(1, 0), <<<<"f", "v">>>>),
      StreamValue(StreamID(1, 1), <<<<"f", "v">>, <<"g", "w">>>>)>>

InitXrange ==
    /\ \/ /\ store = [k \in Keys |-> Absent]
          /\ sheap = NoHeap
       \/ \E n \in 0..Len(XrangeEntries) :
             /\ store = [k \in Keys |-> StreamV(1)]
             /\ sheap = [NoHeap EXCEPT ![1] = SubSeq(XrangeEntries, 1, n)]
    /\ lheap = NoHeap
    /\ conn = RangeConn
    /\ arrival = <<>>
    /\ pushed = 0
    /\ popped = 0
    /\ now = 0
    /\ timers = EmptyBag
    /\ timerErr = FALSE
    /\ stop_event = FALSE
    /\ wire = NoWire
    /\ lastSet = NoSet

NextXrange ==
    \E c \in 1..RangeClients :
        \/ \E cmd \in XrangeCmds : Begin(c, cmd)
        \/ XrangeIn(c)
        \/ XrangeGet(c)
        \/ XrangeSlice(c)

SpecXrange == InitXrange /\ [][NextXrange]_vars

\* C23: XRANGE k start end replies with the entries of the stream, in stream order, whose
\* ID lies in [start, end], both ends included: "-" as start is (0, 0), "+" as end is
\* unbounded, "<ms>" is (ms, 0) as start and (ms, greatest sequence number) as end, and
\* "<ms>-<seq>" is that ID; on an absent key the reply is the empty array.
C23_XrangeInclusive ==
    [][\A c \in Conns :
          (/\ conn[c].name = "XRANGE"
           /\ conn[c].args[2] # "+"
           /\ conn[c].args[3] # "-"
           /\ conn[c].pc \in {"xrange_in", "xrange_get", "xrange_slice"}
           /\ conn'[c].pc \notin {"xrange_in", "xrange_get", "xrange_slice"})
            => LET v == store[conn[c].key]
                   s == Chars(conn[c].args[2])
                   e == Chars(conn[c].args[3])
                   lo == IF s = <<"-">> THEN StreamID(0, 0)
                         ELSE IF Dash(s) = 0 THEN StreamID(IntVal(s), 0)
                         ELSE StreamID(IntVal(SubSeq(s, 1, Dash(s) - 1)),
                                       IntVal(SubSeq(s, Dash(s) + 1, Len(s))))
                   InRange(x) ==
                       /\ IdGeq(x, lo)
                       /\ \/ e = <<"+">>
                          \/ Dash(e) = 0 /\ x.ms <= IntVal(e)
                          \/ /\ Dash(e) # 0
                             /\ ~IdLess(StreamID(IntVal(SubSeq(e, 1, Dash(e) - 1)),
                                                  IntVal(SubSeq(e, Dash(e) + 1, Len(e)))), x)
                   entries == IF v.tag = "none" THEN <<>> ELSE SelectSeq(sheap[v.obj], InRange)
               IN /\ conn'[c].pc = "idle"
                  /\ conn'[c].reply = Array("XRANGE", XrangeRes(entries))]_vars

(***************************************************************************)
(* Command.parse on the bytes of a frame (app/resp.py).  Bytes are         *)
(* sequences of characters.                                                *)
(***************************************************************************)
CR == "\r"
LF == "\n"

\* the bytes that bytes.strip() removes, as far as they can be written here
Whitespace == {" ", "\t", "\n", "\r", "\f"}

\* str(n).encode() for n >= 0
RECURSIVE DecText(_)
DecText(n) == IF n < 10 THEN <<ToString(n)>> ELSE DecText(n \div 10) \o <<ToString(n % 10)>>

\* BulkString(value).encode()
BulkEncode(value) == <<"$">> \o DecText(Len(value)) \o <<CR, LF>> \o value \o <<CR, LF>>

\* Array(values).encode(), the values being strings
RECURSIVE ArrayBody(_)
ArrayBody(values) ==
    IF values = <<>> THEN <<>> ELSE BulkEncode(Head(values)) \o ArrayBody(Tail(values))
ArrayEncode(values) == <<"*">> \o DecText(Len(values)) \o <<CR, LF>> \o ArrayBody(values)

\* reader.readline(): the bytes up to and with the first LF, or all of them
ReadLine(bs) ==
    LET ps == {i \in 1..Len(bs) : bs[i] = LF}
        n == IF ps = {} THEN Len(bs) ELSE CHOOSE i \in ps : \A j \in ps : i <= j
    IN [line |-> SubSeq(bs, 1, n), rest |-> SubSeq(bs, n + 1, Len(bs))]

\* bytes.strip()
RECURSIVE Strip(_)
Strip(cs) ==
    IF cs = <<>> THEN cs
    ELSE IF cs[1] \in Whitespace THEN Strip(Tail(cs))
    ELSE IF cs[Len(cs)] \in Whitespace THEN Strip(SubSeq(cs, 1, Len(cs) - 1))
    ELSE cs

\* str.upper() of one character
UpperCh(ch) ==
    CASE ch = "g" -> "G"
      [] ch = "e" -> "E"
      [] ch = "t" -> "T"
      [] OTHER -> ch
StrUpper(cs) == [i \in 1..Len(cs) |-> UpperCh(cs[i])]

\* Command.parse ends with an exception, or with a Command and the unread bytes
ParseRaise(e) == [status |-> e, name |-> <<>>, args |-> <<>>, rest |-> <<>>]

\* the loop `for _ in range(count):` and the return of Command.parse
RECURSIVE ParseArgs(_, _, _)
ParseArgs(bs, count, raw_args) ==
    IF count <= 0
    THEN IF raw_args = <<>> THEN ParseRaise("IndexError")
         ELSE [status |-> "ok", name |-> StrUpper(raw_args[1]), args |-> Tail(raw_args),
               rest |-> bs]
    ELSE IF bs = <<>> THEN ParseRaise("ConnectionResetError")
    ELSE IF bs[1] # "$" THEN ParseRaise("ValueError")
    ELSE LET len == ReadLine(Tail(bs))
             arg == ReadLine(len.rest)
         IN IF len.line = <<>> THEN ParseRaise("ConnectionResetError")
            ELSE IF ~IntOk(Strip(len.line)) THEN ParseRaise("ValueError")
            ELSE IF arg.line = <<>> THEN ParseRaise("ConnectionResetError")
            ELSE IF Len(Strip(arg.line)) # IntVal(Strip(len.line))
                 THEN ParseRaise("AssertionError")
            ELSE ParseArgs(arg.rest, count - 1, Append(raw_args, Strip(arg.line)))

\* Command.parse(reader), the reader holding the bytes bs
Parse(bs) ==
    IF bs = <<>> THEN ParseRaise("ConnectionResetError")
    ELSE IF bs[1] # "*" THEN ParseRaise("ValueError")
    ELSE LET count == ReadLine(Tail(bs))
         IN IF count.line = <<>> THEN ParseRaise("ConnectionResetError")
            ELSE IF ~IntOk(Strip(count.line)) THEN ParseRaise("ValueError")
            ELSE ParseArgs(count.rest, IntVal(Strip(count.line)), <<>>)

\* the characters of the payloads
PayloadChars == {"g", " ", CR, LF}
Payloads == UNION {[1..n -> PayloadChars] : n \in 0..MaxPayload}
ArgLists == UNION {[1..n -> Payloads] : n \in 1..MaxArgs}

\* the client encodes its arguments as an array of bulk strings and writes the frame,
\* with or without the frame of a next command behind it
ClientWrite ==
    /\ wire.at = "args"
    /\ wire' = [wire EXCEPT !.at = "written", !.bytes = ArrayEncode(wire.sent) \o wire.more]
    /\ UNCHANGED <<store, lheap, sheap, conn, arrival, pushed, popped, now, timers, timerErr,
                   stop_event, lastSet>>

\* `cmd = Command.parse(reader)` on the bytes written
CommandParse ==
    /\ wire.at = "written"
    /\ wire' = [wire EXCEPT !.at = "parsed", !.result = Parse(wire.bytes)]
    /\ UNCHANGED <<store, lheap, sheap, conn, arrival, pushed, popped, now, timers, timerErr,
                   stop_event, lastSet>>

InitParse ==
    /\ \E sent \in ArgLists, more \in {<<>>, ArrayEncode(<<<<"g">>>>)} :
          wire = [NoWire EXCEPT !.at = "args", !.sent = sent, !.more = more]
    /\ store = [k \in Keys |-> Absent]
    /\ lheap = NoHeap
    /\ sheap = NoHeap
    /\ conn = NoConn
    /\ arrival = <<>>
    /\ pushed = 0
    /\ popped = 0
    /\ now = 0
    /\ timers = EmptyBag
    /\ timerErr = FALSE
    /\ stop_event = FALSE
    /\ lastSet = NoSet

NextParse ==
    \/ ClientWrite
    \/ CommandParse

SpecParse == InitParse /\ [][NextParse]_vars

\* C22: framed decode round trip.  For every non-empty list of argument strings a1..an,
\* whatever their payloads (leading or trailing whitespace and CR LF included),
\* Command.parse applied to the RESP array encoding of the list consumes exactly that
\* frame and returns name = uppercase(a1) and args = [a2..an] unchanged.
C22_FramedDecode ==
    wire.at = "parsed"
      => /\ wire.result.status = "ok"
         /\ wire.result.name = StrUpper(wire.sent[1])
         /\ wire.result.args = Tail(wire.sent)
         /\ wire.result.rest = wire.more

=============================================================================
